---- MODULE Spec2Model ----
(***************************************************************************)
(* Model of src/src/provider/rai-provider.ts: createRai, the OAuth2 token  *)
(* manager (tokenManager.getValidToken) and the authenticated fetch        *)
(* (fetchWithAuth / makeRequest) with its single retry on 401.             *)
(*                                                                         *)
(* JavaScript runs each piece of code between two awaits to completion, so *)
(* one action is one such piece: from the call of fetchWithAuth to the     *)
(* first pending await, and from each resolved await to the next one.      *)
(* Times are milliseconds, as Date.now() gives them.                       *)
(*                                                                         *)
(* On the fast path getValidToken returns without a pending await; the     *)
(* token is then already captured and nothing makeRequest does before      *)
(* fetchFn(input, mergedInit) reads the cache, so that piece is one action *)
(* with the proxied call.                                                  *)
(*                                                                         *)
(* Values: a string is a tuple of its parts (<<"Bearer ", "t1">> is the    *)
(* template string `Bearer ${token}`), an optional value is a tuple of     *)
(* length 0 (undefined / null) or 1, a header map is a function from       *)
(* header names to values.                                                 *)
(***************************************************************************)
EXTENDS Integers, Sequences, FiniteSets, TLC

VARIABLES provider, closure, tokenManager, now, ticks, calls, lastExpiresIn, url

\* lastExpiresIn: the expires_in field of the token response the cache was
\* written from, None when the cache is empty (history)
\* url: what the url function of the model configuration was last called with
\* and what it returned

vars == <<provider, closure, tokenManager, now, ticks, calls, lastExpiresIn, url>>

----------------------------------------------------------------------------
(* Bounds of the model *)

\* number of logical calls of fetchWithAuth that may be in flight together
NumCalls == 2

\* number of times the clock advances in one behaviour
MaxTicks == 2

Calls == 1..NumCalls

\* clock advances (ms): 541 s and 3000 s
Deltas == {541000, 3000000}

----------------------------------------------------------------------------
(* JavaScript values *)

None == <<>>

Some(v) == <<v>>

\* null and undefined of a string-valued field
NullStr == "<null>"

UndefinedStr == "<undefined>"

\* truthiness of a string-valued field (this.token && ...)
TruthyStr(s) == s # NullStr /\ s # UndefinedStr /\ s # ""

\* truthiness of number | null (... && this.expiresAt && ...)
TruthyNum(n) == n # None /\ n[1] # 0

\* a ?? b on string-valued fields
CoalesceStr(a, b) == IF a = NullStr \/ a = UndefinedStr THEN b ELSE a

\* a ?? b on optional numbers
CoalesceNum(a, b) == IF a # None THEN a[1] ELSE b

\* `${token}` inside a template string
Interpolate(s) == IF s = UndefinedStr THEN "undefined" ELSE IF s = NullStr THEN "null" ELSE s

EmptyHeaders == [k \in {} |-> <<>>]

\* { ...a, ...b }: b's entries overwrite a's
Overlay(a, b) == [k \in DOMAIN a \cup DOMAIN b |-> IF k \in DOMAIN b THEN b[k] ELSE a[k]]

\* ...x for an optional object x: spreading undefined adds nothing
Spread(x) == IF x = None THEN EmptyHeaders ELSE x[1]

\* a ?? b on an optional value
CoalesceOpt(a, b) == IF a # None THEN a[1] ELSE b

\* new Error(message)
Error(parts) == [isError |-> TRUE, message |-> parts]

\* a thrown value that is no Error object (throw "text")
NonError == [isError |-> FALSE, message |-> <<>>]

----------------------------------------------------------------------------
(* Inputs *)

\* options.clientId / options.clientSecret as the caller may pass them
OptionIds == {UndefinedStr, "", "id"}

OptionSecrets == {UndefinedStr, "", "secret"}

\* import.meta.env.VITE_EAM_KEY, VITE_EAM_SECRET, VITE_RAI_CLIENT_ID
EnvKeys == {UndefinedStr, "id"}

EnvSecrets == {UndefinedStr, "secret"}

EnvRaiClientIds == {UndefinedStr, "", "rai-1"}

\* header maps used as options.headers and init.headers
HeaderMaps ==
    { [Authorization |-> <<"Basic x">>],
      ("X-A" :> <<"a1">>),
      ("X-A" :> <<"a2">>) @@ ("X-RAI-Client-ID" :> <<"other">>),
      ("Authorization" :> <<"Bearer mine">>) @@ ("X-B" :> <<"b">>) }

OptionalHeaders == {None} \cup {Some(h) : h \in HeaderMaps}

\* options.baseURL: a URL string is the tuple of its pieces, "/" and "?" being
\* pieces of their own where they end the string or start the query
BaseURLs ==
    { None,
      Some(<<"https://gw.example.com", "/v1">>),
      Some(<<"https://gw.example.com", "/v1", "/">>),
      Some(<<"https://gw.example.com", "/">>),
      Some(<<"http://localhost:8080", "/api", "/">>) }

\* options.queryParams: the entries of the record in insertion order
QueryParamMaps ==
    { None, Some(<<>>), Some(<< <<"a", "1">> >>), Some(<< <<"a", "1">>, <<"b", "2">> >>) }

\* the path argument of the url function
Paths ==
    { <<"/chat/completions">>,
      <<"/chat/completions", "?", "x", "=", "1">>,
      <<"/embeddings", "?">>,
      <<"/completions", "?", "a", "=", "0", "&", "y", "=", "2">>,
      <<"/models">>,
      <<"/images/generations", "?", "b", "=", "9">> }

\* access_token values the token endpoint may answer with (UndefinedStr: field missing)
AccessTokens == {"t1", "t2", UndefinedStr}

\* expires_in values (seconds) the token endpoint may answer with (None: field missing)
ExpiresIns == {None, Some(10), Some(3600)}

\* what awaiting fetchFn(tokenEndpoint, ...) may give
TokenFetchOutcomes ==
    { [kind |-> "response", ok |-> TRUE, status |-> "200", statusText |-> "OK", error |-> NonError],
      [kind |-> "response", ok |-> FALSE, status |-> "500", statusText |-> "Internal Server Error", error |-> NonError],
      [kind |-> "rejected", ok |-> FALSE, status |-> "", statusText |-> "", error |-> Error(<<"Failed to fetch">>)],
      [kind |-> "rejected", ok |-> FALSE, status |-> "", statusText |-> "", error |-> NonError] }

\* what awaiting tokenResponse.json() may give
TokenJsonOutcomes ==
    { [kind |-> "parsed", access_token |-> a, expires_in |-> e, error |-> NonError] :
          a \in AccessTokens, e \in ExpiresIns }
    \cup
    { [kind |-> "rejected", access_token |-> UndefinedStr, expires_in |-> None,
       error |-> Error(<<"Unexpected token < in JSON">>)] }

\* statuses of the proxied endpoint's responses
Statuses == {200, 401, 500}

\* what awaiting fetchFn(input, mergedInit) may give
ProxiedOutcomes ==
    { [kind |-> "response", status |-> s, error |-> NonError] : s \in Statuses }
    \cup
    { [kind |-> "rejected", status |-> 0, error |-> Error(<<"Failed to fetch">>)] }

----------------------------------------------------------------------------
(* createRai *)

ClientIdRequired == Error(<<"RAI client ID is required. Provide it via options.clientId or VITE_EAM_KEY environment variable.">>)

ClientSecretRequired == Error(<<"RAI client secret is required. Provide it via options.clientSecret or VITE_EAM_SECRET environment variable.">>)

\* what a token request ended with, as far as an error message can carry it
NoCause == [status |-> "", statusText |-> "", error |-> NonError]

\* one invocation of getValidToken as the call that made it saw it: the token
\* requests it made, whether the cache check passed, what the token endpoint
\* answered (failed, cause, issued) and how the invocation ended
NoInvocation ==
    [requests |-> 0, outcome |-> "none", fromCache |-> FALSE, value |-> UndefinedStr,
     error |-> None, failed |-> "", cause |-> NoCause, issued |-> UndefinedStr]

\* the token manager as createRai builds it
NewTokenManager == [token |-> NullStr, expiresAt |-> None]

\* a logical call of fetchWithAuth that was not made yet
\* (up to thrown: the locals of fetchWithAuth, makeRequest and getValidToken and
\* how the call ended; from startedEmpty on: what the call did so far)
IdleCall ==
    [pc |-> "idle", init |-> None, retryOn401 |-> TRUE, gvtNow |-> 0, token |-> UndefinedStr,
     returned |-> None, thrown |-> None,
     startedEmpty |-> FALSE, tokenRequests |-> 0, gvt |-> NoInvocation,
     proxiedCalls |-> 0, headers |-> EmptyHeaders, got |-> <<>>]

\* variant: the client secret is not checked
RequiredCheckIdOnly(clientId, clientSecret) ==
    IF ~TruthyStr(clientId) THEN Some(ClientIdRequired) ELSE None

\* options.baseURL ?? 'https://api.example.com/v1'
DefaultBaseURL == <<"https://api.example.com", "/v1">>

\* variant: the base URL is used as given
WithoutTrailingSlashNot(u) == u

\* withoutTrailingSlash(url): url.replace(/\/$/, '')
WithoutTrailingSlash(u) ==
    IF Len(u) > 0 /\ u[Len(u)] = "/" THEN SubSeq(u, 1, Len(u) - 1) ELSE u

\* the two `if (!...) throw new Error(...)` checks: the error thrown, if any
RequiredCheck(clientId, clientSecret) ==
    IF ~TruthyStr(clientId) THEN Some(ClientIdRequired)
    ELSE IF ~TruthyStr(clientSecret) THEN Some(ClientSecretRequired)
    ELSE None

\* createRai(options) in a build whose import.meta.env is env
CreateRai(options, env) ==
    /\ provider.status = "unconstructed"
    /\ LET clientId     == CoalesceStr(options.clientId, env.VITE_EAM_KEY)
           clientSecret == CoalesceStr(options.clientSecret, env.VITE_EAM_SECRET)
           raiClientId  == env.VITE_RAI_CLIENT_ID
           baseURL      == WithoutTrailingSlash(CoalesceOpt(options.baseURL, DefaultBaseURL))
           error        == RequiredCheck(clientId, clientSecret)
       IN  IF error # None
           THEN /\ provider' = [status |-> "threw", error |-> error,
                                 given |-> Some([options |-> options, env |-> env])]
                /\ UNCHANGED <<closure, tokenManager>>
           ELSE /\ provider' = [status |-> "ready", error |-> None, given |-> None]
                /\ closure' = Some([clientId |-> clientId, clientSecret |-> clientSecret,
                                    raiClientId |-> raiClientId, headers |-> options.headers,
                                    baseURL |-> baseURL, optionsBaseURL |-> options.baseURL,
                                    queryParams |-> options.queryParams])
                /\ tokenManager' = Some(NewTokenManager)
    /\ UNCHANGED <<now, ticks, calls, lastExpiresIn, url>>

----------------------------------------------------------------------------
(* tokenManager.getValidToken *)

\* the safety buffer of the cache check (ms)
SafetyMarginMs == 60000

\* expires_in assumed when the token response has none (s)
DefaultExpiresIn == 3600

\* variant: the cache check without the 60 s buffer
CacheValidNoMargin(tm, t) ==
    /\ TruthyStr(tm.token)
    /\ TruthyNum(tm.expiresAt)
    /\ t < tm.expiresAt[1]

\* variant: the margin is taken in seconds
CacheValidMarginSeconds(tm, t) ==
    /\ TruthyStr(tm.token)
    /\ TruthyNum(tm.expiresAt)
    /\ t < tm.expiresAt[1] - 60

\* variant: the cache check without the expiry
CacheValidNoExpiry(tm, t) == TruthyStr(tm.token)

\* this.token && this.expiresAt && now < this.expiresAt - 60000
CacheValid(tm, t) ==
    /\ TruthyStr(tm.token)
    /\ TruthyNum(tm.expiresAt)
    /\ t < tm.expiresAt[1] - SafetyMarginMs

\* variant: no default for a missing expires_in
ExpiresAtNoDefault(t, expires_in) == t + CoalesceNum(expires_in, 0) * 1000

\* variant: the expiry counts from the time the response is handled
ExpiresAtArrival(t, expires_in) == now + CoalesceNum(expires_in, DefaultExpiresIn) * 1000

\* now + (tokenData.expires_in ?? 3600) * 1000
ExpiresAt(t, expires_in) == t + CoalesceNum(expires_in, DefaultExpiresIn) * 1000

\* `Token request failed: ${status} ${statusText}`
TokenRequestFailed(status, statusText) ==
    Error(<<"Token request failed: ", status, " ", statusText>>)

\* the catch block: `Failed to obtain access token: ${error instanceof Error ? error.message : 'Unknown error'}`
FailedToObtain(error) ==
    Error(<<"Failed to obtain access token: ">>
          \o (IF error.isError THEN error.message ELSE <<"Unknown error">>))

\* variant: tokenResponse.ok is not checked
AfterTokenFetchNoOkCheck(o) ==
    IF o.kind = "rejected"
    THEN [kind |-> "throw", token |-> UndefinedStr, error |-> FailedToObtain(o.error)]
    ELSE [kind |-> "await", token |-> UndefinedStr, error |-> NonError]

\* getValidToken once fetchFn(tokenEndpoint) has settled with outcome o:
\* it throws, or goes on to await tokenResponse.json()
AfterTokenFetch(o) ==
    IF o.kind = "rejected"
    THEN [kind |-> "throw", token |-> UndefinedStr, error |-> FailedToObtain(o.error)]
    ELSE IF ~o.ok
    THEN [kind |-> "throw", token |-> UndefinedStr,
          error |-> FailedToObtain(TokenRequestFailed(o.status, o.statusText))]
    ELSE [kind |-> "await", token |-> UndefinedStr, error |-> NonError]

\* variant: a refresh does not overwrite a cache that became valid meanwhile
AfterTokenJsonFirstWins(tm, t, o) ==
    IF o.kind = "rejected"
    THEN [tm |-> tm, kind |-> "throw", token |-> UndefinedStr, error |-> FailedToObtain(o.error)]
    ELSE [tm |-> IF CacheValid(tm, t) THEN tm
                 ELSE [token |-> o.access_token, expiresAt |-> Some(ExpiresAt(t, o.expires_in))],
          kind |-> "return", token |-> o.access_token, error |-> NonError]

\* variant: a failed refresh clears the cache
AfterTokenJsonClearOnFail(tm, t, o) ==
    IF o.kind = "rejected"
    THEN [tm |-> [token |-> NullStr, expiresAt |-> None],
          kind |-> "throw", token |-> UndefinedStr, error |-> FailedToObtain(o.error)]
    ELSE [tm |-> [token |-> o.access_token, expiresAt |-> Some(ExpiresAt(t, o.expires_in))],
          kind |-> "return", token |-> o.access_token, error |-> NonError]

\* getValidToken once tokenResponse.json() has settled with outcome o, for the
\* call that read the clock at t: the new cache and what the call completes with
AfterTokenJson(tm, t, o) ==
    IF o.kind = "rejected"
    THEN [tm |-> tm, kind |-> "throw", token |-> UndefinedStr, error |-> FailedToObtain(o.error)]
    ELSE [tm |-> [token |-> o.access_token, expiresAt |-> Some(ExpiresAt(t, o.expires_in))],
          kind |-> "return", token |-> o.access_token, error |-> NonError]

----------------------------------------------------------------------------
(* fetchWithAuth / makeRequest *)

\* variant: authHeaders spread after init.headers
MergedHeadersAuthWins(token, cl, initHeaders) ==
    LET base        == Overlay([Authorization |-> <<"Bearer ", Interpolate(token)>>],
                               Spread(cl.headers))
        authHeaders == IF TruthyStr(cl.raiClientId)
                       THEN Overlay(base, "X-RAI-Client-ID" :> <<cl.raiClientId>>)
                       ELSE base
    IN  Overlay(Spread(initHeaders), authHeaders)

\* authHeaders, then mergedInit.headers
MergedHeaders(token, cl, initHeaders) ==
    LET base        == Overlay([Authorization |-> <<"Bearer ", Interpolate(token)>>],
                               Spread(cl.headers))
        authHeaders == IF TruthyStr(cl.raiClientId)
                       THEN Overlay(base, "X-RAI-Client-ID" :> <<cl.raiClientId>>)
                       ELSE base
    IN  Overlay(authHeaders, Spread(initHeaders))

\* fetchFn(input, mergedInit) is called with the token just obtained
SendProxied(rec, token, cl) ==
    [rec EXCEPT !.pc = "proxied",
                !.gvtNow = 0,
                !.token = token,
                !.proxiedCalls = @ + 1,
                !.headers = MergedHeaders(token, cl, rec.init)]

\* variant: a failure of getValidToken is swallowed
AfterGetValidTokenSwallow(rec, c, cl) == SendProxied(rec, c.token, cl)

\* makeRequest after `await tokenManager.getValidToken()` completed with c
AfterGetValidToken(rec, c, cl) ==
    IF c.kind = "throw"
    THEN [rec EXCEPT !.pc = "threw", !.gvtNow = 0, !.thrown = Some(c.error)]
    ELSE SendProxied(rec, c.token, cl)

\* rec's invocation of getValidToken completes with c (history)
Complete(rec, c) ==
    [rec EXCEPT !.gvt.outcome = IF c.kind = "throw" THEN "threw" ELSE "returned",
                !.gvt.value = c.token,
                !.gvt.error = IF c.kind = "throw" THEN Some(c.error) ELSE None]

\* makeRequest(retryOn401) up to its first pending await, with the cache tm at
\* time t: the fast path goes straight to the proxied call
MakeRequest(rec, retryOn401, tm, t, cl) ==
    LET r == [rec EXCEPT !.retryOn401 = retryOn401, !.gvtNow = t, !.gvt = NoInvocation]
        c == [kind |-> "return", token |-> tm.token, error |-> NonError]
    IN  IF CacheValid(tm, t)
        THEN AfterGetValidToken(Complete([r EXCEPT !.gvt.fromCache = TRUE], c), c, cl)
        ELSE [r EXCEPT !.pc = "tokenFetch",
                       !.tokenRequests = @ + 1,
                       !.gvt.requests = @ + 1,
                       !.gvt.outcome = "pending"]

\* variant: every error status is retried
ShouldRetryOnError(status, retryOn401) == status >= 400 /\ retryOn401

\* response.status === 401 && retryOn401
ShouldRetry(status, retryOn401) == status = 401 /\ retryOn401

\* variant: the cache is not cleared
InvalidatedNot(tm) == tm

\* variant: only the token is cleared
InvalidatedTokenOnly(tm) == [tm EXCEPT !.token = NullStr]

\* variant: a cache that still passes the check is kept
InvalidatedUnlessValid(tm) ==
    IF CacheValid(tm, now) THEN tm ELSE [token |-> NullStr, expiresAt |-> None]

\* tokenManager.token = null; tokenManager.expiresAt = null
Invalidated(tm) == [token |-> NullStr, expiresAt |-> None]

\* variant: makeRequest(true)
RetryFlagTrue == TRUE

\* the argument of the recursive call makeRequest(false)
RetryFlag == FALSE

TM == tokenManager[1]

CL == closure[1]

\* fetchWithAuth(input, init) is called: makeRequest() runs to its first await
FetchWithAuth(c, initHeaders) ==
    /\ provider.status = "ready"
    /\ calls[c].pc = "idle"
    /\ calls' = [calls EXCEPT ![c] =
           MakeRequest([@ EXCEPT !.init = initHeaders,
                                 !.startedEmpty = (TM = NewTokenManager)],
                       TRUE, TM, now, CL)]
    /\ UNCHANGED <<provider, closure, tokenManager, now, ticks, lastExpiresIn, url>>

\* await fetchFn(tokenEndpoint, ...) settles
TokenFetchSettles(c, o) ==
    /\ calls[c].pc = "tokenFetch"
    /\ LET rec == [calls[c] EXCEPT
                      !.gvt.failed = IF o.kind = "rejected" THEN "network"
                                     ELSE IF ~o.ok THEN "status" ELSE "",
                      !.gvt.cause = [status |-> o.status, statusText |-> o.statusText,
                                     error |-> o.error]]
           a   == AfterTokenFetch(o)
       IN  calls' = [calls EXCEPT ![c] =
               IF a.kind = "await"
               THEN [rec EXCEPT !.pc = "tokenJson"]
               ELSE AfterGetValidToken(Complete(rec, a), a, CL)]
    /\ UNCHANGED <<provider, closure, tokenManager, now, ticks, lastExpiresIn, url>>

\* await tokenResponse.json() settles
TokenJsonSettles(c, o) ==
    /\ calls[c].pc = "tokenJson"
    /\ LET rec == [calls[c] EXCEPT
                      !.gvt.failed = IF @ # "" THEN @
                                     ELSE IF o.kind = "rejected" THEN "body"
                                     ELSE IF o.access_token = UndefinedStr
                                     THEN "no access_token" ELSE "",
                      !.gvt.cause = IF calls[c].gvt.failed # "" THEN @
                                    ELSE [@ EXCEPT !.error = o.error],
                      !.gvt.issued = o.access_token]
           a   == AfterTokenJson(TM, rec.gvtNow, o)
       IN  /\ tokenManager' = Some(a.tm)
           /\ lastExpiresIn' = IF a.kind = "return" THEN Some(o.expires_in) ELSE lastExpiresIn
           /\ calls' = [calls EXCEPT ![c] = AfterGetValidToken(Complete(rec, a), a, CL)]
    /\ UNCHANGED <<provider, closure, now, ticks, url>>

\* await fetchFn(input, mergedInit) settles
ProxiedSettles(c, o) ==
    /\ calls[c].pc = "proxied"
    /\ IF o.kind = "rejected"
       THEN /\ calls' = [calls EXCEPT ![c] = [@ EXCEPT !.pc = "threw", !.thrown = Some(o.error)]]
            /\ UNCHANGED <<tokenManager, lastExpiresIn>>
       ELSE LET response == [status |-> o.status, attempt |-> calls[c].proxiedCalls]
                rec      == [calls[c] EXCEPT !.got = Append(@, o.status)]
            IN  IF ShouldRetry(o.status, rec.retryOn401)
                THEN /\ tokenManager' = Some(Invalidated(TM))
                     /\ lastExpiresIn' = None
                     /\ calls' = [calls EXCEPT ![c] =
                            MakeRequest(rec, RetryFlag, Invalidated(TM), now, CL)]
                ELSE /\ calls' = [calls EXCEPT ![c] =
                            [rec EXCEPT !.pc = "returned", !.returned = Some(response)]]
                     /\ UNCHANGED <<tokenManager, lastExpiresIn>>
    /\ UNCHANGED <<provider, closure, now, ticks, url>>

----------------------------------------------------------------------------
(* getCommonModelConfig(...).url *)

\* the position of the first "?" of u from i on, 0 when there is none
RECURSIVE QueryStart(_, _)
QueryStart(u, i) ==
    IF i > Len(u) THEN 0 ELSE IF u[i] = "?" THEN i ELSE QueryStart(u, i + 1)

\* new URL(u): what precedes the query, and the query (None when u has no "?")
ParseURL(u) ==
    LET q == QueryStart(u, 1)
    IN  IF q = 0 THEN [href |-> u, search |-> None]
        ELSE [href |-> SubSeq(u, 1, q - 1), search |-> Some(SubSeq(u, q + 1, Len(u)))]

\* new URLSearchParams(record).toString(): key=value joined with &
RECURSIVE SearchParams(_)
SearchParams(entries) ==
    IF entries = <<>> THEN <<>>
    ELSE LET e == entries[1]
             rest == SearchParams(Tail(entries))
         IN  <<e[1], "=", e[2]>> \o (IF rest = <<>> THEN <<>> ELSE <<"&">> \o rest)

\* url.search = s: an empty string removes the query
SetSearch(parsed, s) == [parsed EXCEPT !.search = IF s = <<>> THEN None ELSE Some(s)]

\* url.toString()
Href(parsed) ==
    IF parsed.search = None THEN parsed.href ELSE parsed.href \o <<"?">> \o parsed.search[1]

\* variant: the configured parameters are appended to the query of the path
UrlOfMerging(cl, path) ==
    LET parsed == ParseURL(cl.baseURL \o path)
    IN  IF cl.queryParams # None
        THEN Href(SetSearch(parsed,
                 IF parsed.search = None \/ parsed.search = Some(<<>>)
                 THEN SearchParams(cl.queryParams[1])
                 ELSE IF cl.queryParams[1] = <<>> THEN parsed.search[1]
                 ELSE parsed.search[1] \o <<"&">> \o SearchParams(cl.queryParams[1])))
        ELSE Href(parsed)

\* url: ({ path }) => ...
UrlOf(cl, path) ==
    LET parsed == ParseURL(cl.baseURL \o path)
    IN  IF cl.queryParams # None
        THEN Href(SetSearch(parsed, SearchParams(cl.queryParams[1])))
        ELSE Href(parsed)

\* a model built by the provider asks for the URL of path
Url(path) ==
    /\ provider.status = "ready"
    /\ url' = Some([path |-> path, result |-> UrlOf(CL, path)])
    /\ UNCHANGED <<provider, closure, tokenManager, now, ticks, calls, lastExpiresIn>>

\* Date.now() advances by d
Tick(d) ==
    /\ ticks < MaxTicks
    /\ now' = now + d
    /\ ticks' = ticks + 1
    /\ UNCHANGED <<provider, closure, tokenManager, calls, lastExpiresIn, url>>

----------------------------------------------------------------------------
(* Specifications *)

\* the options and the build environment of the provider under concurrency
MainOptions ==
    [clientId : OptionIds, clientSecret : OptionSecrets, headers : {None},
     baseURL : {None}, queryParams : {None}]

MainEnvs ==
    [VITE_EAM_KEY : EnvKeys, VITE_EAM_SECRET : EnvSecrets, VITE_RAI_CLIENT_ID : {UndefinedStr}]

Init ==
    /\ provider = [status |-> "unconstructed", error |-> None, given |-> None]
    /\ closure = None
    /\ tokenManager = None
    /\ now = 0
    /\ ticks = 0
    /\ calls = [c \in Calls |-> IdleCall]
    /\ lastExpiresIn = None
    /\ url = None

Next ==
    \/ \E options \in MainOptions, env \in MainEnvs : CreateRai(options, env)
    \/ \E c \in Calls : FetchWithAuth(c, None)
    \/ \E c \in Calls, o \in TokenFetchOutcomes : TokenFetchSettles(c, o)
    \/ \E c \in Calls, o \in TokenJsonOutcomes : TokenJsonSettles(c, o)
    \/ \E c \in Calls, o \in ProxiedOutcomes : ProxiedSettles(c, o)
    \/ \E d \in Deltas : Tick(d)

Spec == Init /\ [][Next]_vars

\* one logical call at a fixed time, under every header configuration
HeaderOptions ==
    [clientId : {"id"}, clientSecret : {"secret"}, headers : OptionalHeaders,
     baseURL : {None}, queryParams : {None}]

HeaderEnvs ==
    [VITE_EAM_KEY : {UndefinedStr}, VITE_EAM_SECRET : {UndefinedStr},
     VITE_RAI_CLIENT_ID : EnvRaiClientIds]

NextHeaders ==
    \/ \E options \in HeaderOptions, env \in HeaderEnvs : CreateRai(options, env)
    \/ \E c \in {1}, h \in OptionalHeaders : FetchWithAuth(c, h)
    \/ \E c \in {1}, o \in TokenFetchOutcomes : TokenFetchSettles(c, o)
    \/ \E c \in {1}, o \in TokenJsonOutcomes : TokenJsonSettles(c, o)
    \/ \E c \in {1}, o \in ProxiedOutcomes : ProxiedSettles(c, o)

SpecHeaders == Init /\ [][NextHeaders]_vars

\* the url function under every base URL and query-parameter configuration
UrlOptions ==
    [clientId : {"id"}, clientSecret : {"secret"}, headers : {None},
     baseURL : BaseURLs, queryParams : QueryParamMaps]

UrlEnvs ==
    [VITE_EAM_KEY : {UndefinedStr}, VITE_EAM_SECRET : {UndefinedStr},
     VITE_RAI_CLIENT_ID : {UndefinedStr}]

NextUrl ==
    \/ \E options \in UrlOptions, env \in UrlEnvs : CreateRai(options, env)
    \/ \E path \in Paths : Url(path)

SpecUrl == Init /\ [][NextUrl]_vars

TypeOK ==
    /\ provider.status \in {"unconstructed", "ready", "threw"}
    /\ \A c \in Calls : calls[c].pc \in {"idle", "tokenFetch", "tokenJson", "proxied", "returned", "threw"}
    /\ lastExpiresIn \in {None} \cup {Some(e) : e \in ExpiresIns}
    /\ url = None \/ url[1].path \in Paths

----------------------------------------------------------------------------
(* Claims *)

\* the response object the k-th proxied call of a logical call resolved with
Response(status, k) == Some([status |-> status, attempt |-> k])

\* some other logical call is awaiting I/O
OtherInFlight(c) ==
    \E d \in Calls \ {c} : calls[d].pc \in {"tokenFetch", "tokenJson", "proxied"}

\* C1 (single retry): a logical call that started with an empty token cache, got
\* 401 on its first proxied call and 200 on its second returns the 200 response
\* after exactly two proxied calls and exactly two token requests, and its second
\* proxied call carried the token the forced refresh was answered with.
C1_SingleRetry ==
    \A c \in Calls :
        LET r == calls[c]
        IN  (r.startedEmpty /\ r.got = <<401, 200>>) =>
                /\ r.pc = "returned"
                /\ r.returned = Response(200, 2)
                /\ r.proxiedCalls = 2
                /\ r.tokenRequests = 2
                /\ ~r.gvt.fromCache
                /\ r.gvt.requests = 1
                /\ r.token = r.gvt.issued
                /\ r.headers = [Authorization |-> <<"Bearer ", Interpolate(r.gvt.issued)>>]

C1_Witness ==
    \E c \in Calls :
        /\ calls[c].startedEmpty
        /\ calls[c].got = <<401, 200>>
        /\ calls[c].pc = "returned"
        /\ calls[c].token = "t2"
        /\ tokenManager = Some([token |-> "t2", expiresAt |-> Some(3600000)])

\* C2 (no double retry): no logical call makes more than two proxied calls or
\* more than two token requests, whatever the other calls do; once its second
\* proxied call is answered it has returned that second response (a second 401
\* included) and awaits nothing more.
C2_NoDoubleRetry ==
    \A c \in Calls :
        LET r == calls[c]
        IN  /\ r.proxiedCalls <= 2
            /\ r.tokenRequests <= 2
            /\ Len(r.got) <= 2
            /\ Len(r.got) = 2 =>
                   /\ r.pc = "returned"
                   /\ r.returned = Response(r.got[2], 2)
                   /\ r.proxiedCalls = 2

C2_Witness ==
    \E c \in Calls :
        /\ calls[c].got = <<401, 401>>
        /\ calls[c].pc = "returned"
        /\ calls[c].returned = Response(401, 2)
        /\ OtherInFlight(c)

\* C9 (non-401 pass-through): a logical call whose first proxied call is answered
\* with a status other than 401 returns that very response, having made exactly
\* one proxied call, without a retry and without an error.
C9_PassThrough ==
    \A c \in Calls :
        LET r == calls[c]
        IN  (Len(r.got) >= 1 /\ r.got[1] # 401) =>
                /\ r.pc = "returned"
                /\ r.returned = Response(r.got[1], 1)
                /\ r.thrown = None
                /\ r.proxiedCalls = 1
                /\ Len(r.got) = 1

C9_Witness ==
    \E c \in Calls :
        /\ calls[c].got = <<500>>
        /\ calls[c].pc = "returned"
        /\ calls[c].returned = Response(500, 1)

\* a credential is available when the options or the environment give a
\* non-empty value for it
Available(option, envValue) == TruthyStr(option) \/ TruthyStr(envValue)

\* C10 (fail-fast configuration): createRai never yields a provider without a
\* client identifier and a client secret; when it throws, it throws the error
\* naming the missing credential, no token manager and no provider exist, and no
\* token request or proxied call was or will be made.
C10_FailFast ==
    /\ provider.status = "ready" =>
           /\ closure # None /\ tokenManager # None
           /\ TruthyStr(closure[1].clientId)
           /\ TruthyStr(closure[1].clientSecret)
    /\ provider.status # "ready" =>
           /\ closure = None
           /\ tokenManager = None
           /\ \A c \in Calls : calls[c] = IdleCall
    /\ provider.status = "threw" =>
           LET g == provider.given[1]
               hasId == Available(g.options.clientId, g.env.VITE_EAM_KEY)
           IN  /\ provider.error \in {Some(ClientIdRequired), Some(ClientSecretRequired)}
               /\ ~hasId => provider.error = Some(ClientIdRequired)

C10_Witness ==
    /\ provider.status = "threw"
    /\ provider.error = Some(ClientSecretRequired)
    /\ provider.given[1].options.clientId = "id"
    /\ ~Available(provider.given[1].options.clientSecret, provider.given[1].env.VITE_EAM_SECRET)

\* the cache holds a token
HoldsToken(tm) == tm.token # NullStr /\ tm.token # UndefinedStr

\* the cache holds no token, or the time t is within 60000 ms of its expiry
MustRefresh(tm, t) ==
    \/ ~HoldsToken(tm)
    \/ tm.expiresAt = None
    \/ t >= tm.expiresAt[1] - 60000

\* call c enters makeRequest in this step: fetchWithAuth is called, or the
\* first proxied call was answered with 401
Starts(c) == calls[c].pc = "idle" /\ calls'[c].pc # "idle"

Retries(c) ==
    /\ calls[c].pc = "proxied"
    /\ calls'[c].pc \in {"tokenFetch", "proxied"}
    /\ calls'[c] # calls[c]

\* what the invocation of getValidToken by c in this step does with the cache
\* tm at time t
Invoked(c, tm, t) ==
    LET requested == calls'[c].tokenRequests = calls[c].tokenRequests + 1
    IN  /\ requested <=> MustRefresh(tm, t)
        /\ requested => calls'[c].pc = "tokenFetch"
        /\ ~requested =>
               /\ calls'[c].tokenRequests = calls[c].tokenRequests
               /\ calls'[c].pc = "proxied"
               /\ calls'[c].proxiedCalls = calls[c].proxiedCalls + 1
               /\ calls'[c].token = tm.token
               /\ calls'[c].gvt.fromCache

\* C3 (caching fast path): an invocation of getValidToken issues a token request
\* if and only if the cache holds no token or now >= expiresAt - 60000 at that
\* moment; otherwise it returns the cached token at once, whatever the other
\* calls are doing; and no token request is issued at any other time.
C3_FastPath ==
    [][\A c \in Calls :
          /\ Starts(c) => Invoked(c, tokenManager[1], now)
          /\ Retries(c) => Invoked(c, tokenManager'[1], now)
          /\ calls'[c].tokenRequests # calls[c].tokenRequests => (Starts(c) \/ Retries(c))
      ]_vars

C3_Witness ==
    \E c \in Calls :
        /\ calls[c].pc = "proxied"
        /\ calls[c].gvt.fromCache
        /\ calls[c].tokenRequests = 0
        /\ calls[c].token = "t1"
        /\ now = 3000000
        /\ tokenManager = Some([token |-> "t1", expiresAt |-> Some(3600000)])
        /\ OtherInFlight(c)

\* getValidToken returns a token to call c in this step
Returns(c) == calls'[c].proxiedCalls = calls[c].proxiedCalls + 1

\* the cached token is outside its safety margin at time t
OutsideMargin(tm, t) == tm.expiresAt # None /\ t < tm.expiresAt[1] - 60000

\* C4 as claimed (safety margin): every token getValidToken returns, from the
\* cache or from a refresh, satisfies now < expiresAt - 60000 when it is returned.
C4_Original ==
    [][\A c \in Calls : Returns(c) => OutsideMargin(tokenManager'[1], now')]_vars

\* C4 as amended: every token getValidToken returns from the cache satisfies
\* now < expiresAt - 60000 when it is returned and is the cached token.
C4_CachedOutsideMargin ==
    [][\A c \in Calls :
          (Returns(c) /\ calls'[c].gvt.fromCache) =>
              /\ OutsideMargin(tokenManager'[1], now')
              /\ HoldsToken(tokenManager'[1])
              /\ calls'[c].token = tokenManager'[1].token
      ]_vars

C4_Witness ==
    \E c \in Calls :
        /\ calls[c].pc = "proxied"
        /\ calls[c].gvt.fromCache
        /\ calls[c].token = "t2"
        /\ now = 3541000
        /\ tokenManager = Some([token |-> "t2", expiresAt |-> Some(4141000)])

\* C5 (token failure aborts the request): when getValidToken throws, in the first
\* attempt or in the retry, fetchWithAuth throws that same error, returns
\* nothing, has issued no proxied call for the attempt and made no token request
\* beyond the one that failed.
C5_TokenFailureAborts ==
    \A c \in Calls :
        LET r == calls[c]
        IN  r.gvt.outcome = "threw" =>
                /\ r.pc = "threw"
                /\ r.gvt.error # None
                /\ r.thrown = r.gvt.error
                /\ r.returned = None
                /\ r.proxiedCalls = Len(r.got)
                /\ r.gvt.requests = 1
                /\ r.tokenRequests <= Len(r.got) + 1

C5_Witness ==
    \E c \in Calls :
        /\ calls[c].gvt.outcome = "threw"
        /\ calls[c].pc = "threw"
        /\ calls[c].got = <<401>>
        /\ calls[c].proxiedCalls = 1
        /\ calls[c].tokenRequests = 2

\* C6 (token request errors are not retried): when the token request ends in a
\* non-success status, a network failure or an unparseable body, getValidToken
\* throws after that one request and returns no token; the error carries the
\* status and status text, or the message of the Error that was the cause.
C6_TokenErrorsNotRetried ==
    \A c \in Calls :
        LET g == calls[c].gvt
            prefix == <<"Failed to obtain access token: ">>
        IN  g.failed \in {"status", "network", "body"} =>
                /\ g.outcome = "threw"
                /\ g.value = UndefinedStr
                /\ g.requests = 1
                /\ g.error # None
                /\ g.failed = "status" =>
                       g.error[1].message =
                           prefix \o <<"Token request failed: ", g.cause.status, " ",
                                       g.cause.statusText>>
                /\ (g.failed # "status" /\ g.cause.error.isError) =>
                       g.error[1].message = prefix \o g.cause.error.message

C6_Witness ==
    \E c \in Calls :
        /\ calls[c].gvt.failed = "status"
        /\ calls[c].gvt.cause.status = "500"
        /\ calls[c].gvt.outcome = "threw"
        /\ \E d \in Calls : calls[d].gvt.failed = "body" /\ calls[d].gvt.outcome = "threw"

\* C7 (missing access_token is an error): when the token endpoint answers with a
\* success status and a JSON body without access_token, getValidToken throws,
\* returns no token and leaves the cache as it was.
C7_MissingAccessTokenFails ==
    [][\A c \in Calls :
          (calls[c].pc = "tokenJson" /\ calls'[c].gvt.failed = "no access_token") =>
              /\ calls'[c].gvt.outcome = "threw"
              /\ calls'[c].pc = "threw"
              /\ tokenManager' = tokenManager
      ]_vars

\* the header names of the four layers
LayerNames(static, rai, perCall) ==
    {"Authorization"} \cup DOMAIN static \cup DOMAIN perCall
    \cup (IF TruthyStr(rai) THEN {"X-RAI-Client-ID"} ELSE {})

\* the value of header k: the last layer that names it
LayerValue(k, token, static, rai, perCall) ==
    IF k \in DOMAIN perCall THEN perCall[k]
    ELSE IF k = "X-RAI-Client-ID" /\ TruthyStr(rai) THEN <<rai>>
    ELSE IF k \in DOMAIN static THEN static[k]
    ELSE <<"Bearer ", Interpolate(token)>>

\* C8 (header precedence): the headers of every proxied call are the overlay of
\* Authorization: Bearer <token>, the static headers, X-RAI-Client-ID (when
\* configured) and the per-call headers, the later layer winning.
C8_HeaderPrecedence ==
    \A c \in Calls :
        LET r == calls[c]
            static == IF closure[1].headers = None THEN EmptyHeaders ELSE closure[1].headers[1]
            perCall == IF r.init = None THEN EmptyHeaders ELSE r.init[1]
            rai == closure[1].raiClientId
        IN  r.proxiedCalls > 0 =>
                /\ DOMAIN r.headers = LayerNames(static, rai, perCall)
                /\ \A k \in DOMAIN r.headers :
                       r.headers[k] = LayerValue(k, r.token, static, rai, perCall)

C8_Witness ==
    \E c \in Calls :
        /\ calls[c].proxiedCalls = 2
        /\ calls[c].token = "t2"
        /\ closure[1].raiClientId = "rai-1"
        /\ closure[1].headers = Some(("X-A" :> <<"a2">>) @@ ("X-RAI-Client-ID" :> <<"other">>))
        /\ calls[c].init = Some(("X-A" :> <<"a1">>))
        /\ calls[c].headers = ("Authorization" :> <<"Bearer ", "t2">>) @@ ("X-A" :> <<"a1">>)
                              @@ ("X-RAI-Client-ID" :> <<"rai-1">>)

\* the empty cache
Cleared == Some([token |-> NullStr, expiresAt |-> None])

\* call c's token request completes in this step with a parsed body
Refreshes(c) == calls[c].pc = "tokenJson" /\ calls'[c].gvt.outcome = "returned"

\* call c's first (second) proxied call is answered with 401 in this step
FirstAttempt401(c) ==
    calls[c].pc = "proxied" /\ calls[c].got = <<>> /\ calls'[c].got = <<401>>

RetryAttempt401(c) ==
    calls[c].pc = "proxied" /\ Len(calls[c].got) = 1 /\ Len(calls'[c].got) = 2
                            /\ calls'[c].got[2] = 401

\* fetchWithAuth is called in this step while the cache holds a token obtained
\* from a response without expires_in
StartsOnDefaultExpiry(c) ==
    Starts(c) /\ lastExpiresIn = Some(None) /\ HoldsToken(tokenManager[1])

\* C11 as claimed (default expiry): a token from a response without expires_in
\* is returned from the cache, without a token request, for 3600 seconds after
\* it was issued, and refreshed afterwards. (The expiry stored is the earliest
\* instant that can count as issuance plus 3600 s, so it is the end of that
\* period at the latest.)
C11_Original ==
    [][\A c \in Calls :
          StartsOnDefaultExpiry(c) =>
              (calls'[c].gvt.fromCache <=> now < tokenManager[1].expiresAt[1])
      ]_vars

\* C11 as amended: a refresh answered without expires_in stores
\* expiresAt = (the time read at the entry of getValidToken) + 3600000 ms; the
\* token is then returned from the cache, without a token request, exactly
\* while now < expiresAt - 60000, that is for 3540 seconds, and refreshed from
\* then on.
C11_DefaultExpiry ==
    [][\A c \in Calls :
          /\ (Refreshes(c) /\ lastExpiresIn' = Some(None)) =>
                 tokenManager'[1].expiresAt = Some(calls[c].gvtNow + 3600000)
          /\ StartsOnDefaultExpiry(c) =>
                 /\ calls'[c].gvt.fromCache <=>
                        now < (tokenManager[1].expiresAt[1] - 3600000) + 3540000
                 /\ calls'[c].gvt.fromCache =>
                        /\ calls'[c].tokenRequests = calls[c].tokenRequests
                        /\ calls'[c].token = tokenManager[1].token
                 /\ ~calls'[c].gvt.fromCache =>
                        /\ calls'[c].tokenRequests = calls[c].tokenRequests + 1
                        /\ calls'[c].pc = "tokenFetch"
      ]_vars

C11_Witness ==
    \E c \in Calls :
        /\ now = 3541000
        /\ lastExpiresIn = Some(None)
        /\ tokenManager = Some([token |-> "t1", expiresAt |-> Some(3600000)])
        /\ calls[c].pc = "tokenFetch"
        /\ calls[c].got = <<>>
        /\ ~calls[c].startedEmpty
        /\ calls[c].tokenRequests = 1

\* the pieces of path before its first "?"
PathName(path) ==
    IF \E i \in 1..Len(path) : path[i] = "?"
    THEN SubSeq(path, 1, (CHOOSE i \in 1..Len(path) :
                              path[i] = "?" /\ \A j \in 1..(i - 1) : path[j] # "?") - 1)
    ELSE path

\* the query string that is exactly the map m (of at most two entries)
QueryOfMap(m) ==
    IF Len(m) = 0 THEN <<>>
    ELSE IF Len(m) = 1 THEN <<"?", m[1][1], "=", m[1][2]>>
    ELSE <<"?", m[1][1], "=", m[1][2], "&", m[2][1], "=", m[2][2]>>

\* C12 (URL composition): the URL is the configured base URL (the default one
\* when none is configured) without its trailing slash, followed by the path;
\* with a query-parameter map configured, the query string is exactly that map
\* and the query of the path is dropped; without one, the path keeps its query.
C12_UrlComposition ==
    url # None =>
        LET o        == [baseURL     |-> closure[1].optionsBaseURL,
                         queryParams |-> closure[1].queryParams]
            base     == IF o.baseURL = None THEN <<"https://api.example.com", "/v1">>
                        ELSE o.baseURL[1]
            stripped == IF base[Len(base)] = "/" THEN SubSeq(base, 1, Len(base) - 1)
                        ELSE base
            path     == url[1].path
        IN  /\ o.queryParams = None => url[1].result = stripped \o path
            /\ o.queryParams # None =>
                   url[1].result = stripped \o PathName(path) \o QueryOfMap(o.queryParams[1])

C12_Witness ==
    /\ provider.status = "ready"
    /\ closure[1].optionsBaseURL = Some(<<"https://gw.example.com", "/v1", "/">>)
    /\ closure[1].queryParams = Some(<< <<"a", "1">>, <<"b", "2">> >>)
    /\ url = Some([path   |-> <<"/completions", "?", "a", "=", "0", "&", "y", "=", "2">>,
                   result |-> <<"https://gw.example.com", "/v1", "/completions",
                                "?", "a", "=", "1", "&", "b", "=", "2">>])

\* C13 (token/expiry pairing): in every reachable state the cache holds a
\* token if and only if it holds an expiry.
C13_Pairing ==
    tokenManager # None =>
        (HoldsToken(tokenManager[1]) <=> tokenManager[1].expiresAt # None)

\* call c is waiting for the token endpoint
Refreshing(c) == calls[c].pc \in {"tokenFetch", "tokenJson"}

\* the lifetime in ms the cache was last written with
Lifetime(expires_in) == IF expires_in = None THEN 3600000 ELSE expires_in[1] * 1000

\* C14 (duplicate concurrent refreshes, last completion wins): a getValidToken
\* call invoked on an empty or expired cache while another call's token request
\* is still pending issues a token request of its own; every completing refresh
\* returns the token of its own response and overwrites the cache with that
\* token and its own expiry, whatever another refresh stored before, so the
\* cache holds what the refresh that completed last wrote.
C14_LastRefreshWins ==
    [][\A c \in Calls :
          /\ (Starts(c) /\ MustRefresh(tokenManager[1], now)
                /\ \E d \in Calls \ {c} : Refreshing(d)) =>
                 /\ calls'[c].pc = "tokenFetch"
                 /\ calls'[c].tokenRequests = calls[c].tokenRequests + 1
                 /\ calls'[c].gvt.requests = 1
                 /\ \A d \in Calls \ {c} : calls'[d] = calls[d]
          /\ Refreshes(c) =>
                 /\ calls'[c].token = calls'[c].gvt.issued
                 /\ calls'[c].gvt.value = calls'[c].gvt.issued
                 /\ tokenManager' =
                        Some([token     |-> calls'[c].gvt.issued,
                              expiresAt |-> Some(calls[c].gvtNow + Lifetime(lastExpiresIn'[1]))])
      ]_vars

C14_Witness ==
    /\ \A c \in Calls :
           /\ calls[c].startedEmpty
           /\ calls[c].pc = "proxied"
           /\ calls[c].got = <<>>
           /\ ~calls[c].gvt.fromCache
           /\ calls[c].tokenRequests = 1
    /\ calls[1].token = "t1"
    /\ calls[2].token = "t2"
    /\ tokenManager = Some([token |-> "t2", expiresAt |-> Some(10000)])
    /\ lastExpiresIn = Some(Some(10))

\* C15 (forced refresh cannot be bypassed): the step in which a first-attempt
\* 401 is handled leaves the cache empty and the call waiting for a token
\* request of its own, with no proxied call sent; and the second proxied call
\* of a call carries the token its own forced refresh was answered with, never a
\* cached one, whatever the other calls stored meanwhile.
C15_ForcedRefresh ==
    [][\A c \in Calls :
          /\ FirstAttempt401(c) =>
                 /\ tokenManager' = Cleared
                 /\ calls'[c].pc = "tokenFetch"
                 /\ ~calls'[c].retryOn401
                 /\ calls'[c].tokenRequests = calls[c].tokenRequests + 1
                 /\ calls'[c].proxiedCalls = calls[c].proxiedCalls
                 /\ ~calls'[c].gvt.fromCache
          /\ (calls'[c].got = <<401>> /\ calls'[c].pc = "proxied") =>
                 /\ calls[c].pc = "tokenJson" \/ calls[c] = calls'[c]
                 /\ ~calls'[c].gvt.fromCache
                 /\ calls'[c].gvt.requests = 1
                 /\ calls'[c].token = calls'[c].gvt.issued
      ]_vars

C15_Witness ==
    \E c \in Calls, d \in Calls :
        /\ c # d
        /\ calls[c].got = <<401>>
        /\ calls[c].pc = "tokenFetch"
        /\ calls[c].tokenRequests = 2
        /\ calls[c].token = "t1"
        /\ calls[d].pc = "proxied"
        /\ calls[d].gvt.fromCache
        /\ calls[d].token = "t1"
        /\ tokenManager = Cleared

\* C16 (short-lived tokens): while the cache holds a token whose lifetime
\* expires_in * 1000 is at most 60000 ms, every call of getValidToken, at
\* whatever time, issues a token request and none returns the cached token.
C16_ShortLived ==
    [][\A c \in Calls :
          (Starts(c) /\ lastExpiresIn # None /\ lastExpiresIn[1] # None
                     /\ lastExpiresIn[1][1] * 1000 <= 60000) =>
              /\ calls'[c].pc = "tokenFetch"
              /\ calls'[c].tokenRequests = calls[c].tokenRequests + 1
              /\ ~calls'[c].gvt.fromCache
              /\ calls'[c].proxiedCalls = calls[c].proxiedCalls
      ]_vars

C16_Witness ==
    \E c \in Calls, d \in Calls :
        /\ c # d
        /\ lastExpiresIn = Some(Some(10))
        /\ tokenManager = Some([token |-> "t1", expiresAt |-> Some(10000)])
        /\ now = 0
        /\ calls[d].pc = "proxied" /\ calls[d].token = "t1" /\ calls[d].got = <<>>
        /\ ~calls[c].startedEmpty
        /\ calls[c].pc = "tokenFetch"
        /\ calls[c].got = <<>>

\* C17 (TokenState frame): the cache is created empty, and afterwards a step
\* changes it only by completing a token refresh whose body parsed (token and
\* expiresAt both written) or by handling a first-attempt 401 (both cleared);
\* every other step (a fast-path return, a failed token request, a non-401
\* response, a 401 on the retry, a proxied call that throws, the clock) leaves
\* both fields as they were.
C17_Frame ==
    [][/\ tokenManager = None => tokenManager' \in {None, Cleared}
       /\ (tokenManager # None /\ tokenManager' # tokenManager) =>
              \E c \in Calls :
                  \/ /\ Refreshes(c)
                     /\ tokenManager'[1].token = calls'[c].gvt.issued
                     /\ tokenManager'[1].expiresAt # None
                  \/ /\ FirstAttempt401(c)
                     /\ tokenManager' = Cleared
       /\ \A c \in Calls :
              (calls'[c] # calls[c] /\ ~Refreshes(c) /\ ~FirstAttempt401(c)) =>
                  (tokenManager # None => tokenManager' = tokenManager)
      ]_vars

C17_Witness ==
    \E c \in Calls :
        /\ calls[c].pc = "threw"
        /\ calls[c].gvt.outcome = "threw"
        /\ calls[c].gvt.failed = "body"
        /\ tokenManager = Some([token |-> "t1", expiresAt |-> Some(3600000)])
        /\ lastExpiresIn = Some(None)

\* C18 as claimed (invalidation after every authentication failure): whenever
\* a proxied call is answered with 401, on the first attempt or on the retry,
\* the cache is empty afterwards.
C18_Original ==
    [][\A c \in Calls :
          (FirstAttempt401(c) \/ RetryAttempt401(c)) => tokenManager' = Cleared
      ]_vars

\* C18 as amended: a 401 on the first attempt clears token and expiresAt; a 401
\* on the retry is returned to the caller and leaves the cache as it is, the
\* rejected token included.
C18_FirstAttemptInvalidation ==
    [][\A c \in Calls :
          /\ FirstAttempt401(c) => tokenManager' = Cleared
          /\ RetryAttempt401(c) =>
                 /\ tokenManager' = tokenManager
                 /\ calls'[c].pc = "returned"
                 /\ calls'[c].returned = Response(401, 2)
      ]_vars

C18_Witness ==
    \E c \in Calls, d \in Calls :
        /\ c # d
        /\ calls[c].got = <<401, 401>>
        /\ calls[c].pc = "returned"
        /\ calls[c].token = "t2"
        /\ tokenManager = Some([token |-> "t2", expiresAt |-> Some(3600000)])
        /\ calls[d].pc = "proxied"
        /\ calls[d].gvt.fromCache
        /\ calls[d].token = "t2"
        /\ calls[d].got = <<>>

\* C19 (unconditional invalidation under concurrency): a first-attempt 401
\* empties the cache whether or not the cached token is the rejected one, a
\* fresh token stored meanwhile by another call's forced refresh included; every
\* call whose first proxied call got 401 makes a forced token request of its
\* own and sends its second proxied call with the token of that request.
C19_UnconditionalInvalidation ==
    [][\A c \in Calls :
          /\ (FirstAttempt401(c) /\ tokenManager[1].token # calls[c].token) =>
                 /\ tokenManager' = Cleared
                 /\ lastExpiresIn' = None
                 /\ calls'[c].tokenRequests = calls[c].tokenRequests + 1
          /\ (Len(calls'[c].got) >= 1 /\ calls'[c].got[1] = 401) =>
                 /\ calls'[c].gvt.requests = 1
                 /\ ~calls'[c].gvt.fromCache
                 /\ calls'[c].proxiedCalls = 2 =>
                        /\ calls'[c].token = calls'[c].gvt.issued
                        /\ calls'[c].headers["Authorization"] =
                               <<"Bearer ", Interpolate(calls'[c].gvt.issued)>>
      ]_vars

C19_Witness ==
    \E c \in Calls, d \in Calls :
        /\ c # d
        /\ calls[c].got = <<401>>
        /\ calls[c].pc = "proxied"
        /\ calls[c].token = "t2"
        /\ calls[c].tokenRequests = 2
        /\ calls[d].got = <<401>>
        /\ calls[d].pc = "tokenFetch"
        /\ calls[d].token = "t1"
        /\ calls[d].tokenRequests = 1
        /\ tokenManager = Cleared

\* C20 (expiry anchored at call entry): getValidToken reads the clock when it
\* is entered and goes on to its token request with that reading, which stays
\* the same until the response is handled; a completing refresh stores
\* expiresAt = that reading + the lifetime, which is never later than the time
\* of completion + the lifetime.
C20_ExpiryAnchoredAtEntry ==
    [][\A c \in Calls :
          /\ (calls[c].pc \in {"idle", "proxied"} /\ calls'[c].pc = "tokenFetch") =>
                 calls'[c].gvtNow = now
          /\ (Refreshing(c) /\ calls'[c].pc \in {"tokenFetch", "tokenJson"}) =>
                 calls'[c].gvtNow = calls[c].gvtNow
          /\ Refreshes(c) =>
                 /\ tokenManager'[1].expiresAt =
                        Some(calls[c].gvtNow + Lifetime(lastExpiresIn'[1]))
                 /\ tokenManager'[1].expiresAt[1] <= now + Lifetime(lastExpiresIn'[1])
      ]_vars

\* a refresh entered at time 0 is about to complete at 541000 over a cache that
\* a later refresh wrote with expiresAt = 4141000
C20_Witness ==
    \E c \in Calls, d \in Calls :
        /\ c # d
        /\ now = 541000
        /\ calls[c].pc = "tokenJson"
        /\ calls[c].gvtNow = 0
        /\ calls[d].pc = "proxied"
        /\ calls[d].token = "t2"
        /\ ~calls[d].gvt.fromCache
        /\ tokenManager = Some([token |-> "t2", expiresAt |-> Some(4141000)])
        /\ lastExpiresIn = Some(Some(3600))

====
